---- MODULE Spec2Model ----
(***************************************************************************)
(* Batch dispatch engine of the ProxyService repository.                   *)
(*                                                                         *)
(* One POST /batch request is followed from its arrival (access key,       *)
(* payload) through the dispatch of its items to the answer.               *)
(* Three of the repository's programs are modelled, selected by `variant`: *)
(*   "throttled"  batch-proxy-throttled.js  (src/server.js:1-355)          *)
(*                chunked dispatcher with stagger and group delays, retry  *)
(*   "unlimited"  batch-proxy-unlimited.js  (src/unnamed/part_001)         *)
(*                worker-pool dispatcher with retry                        *)
(*   "forgiving"  batch-proxy-forgiving.js  (src/unnamed/part_000)         *)
(*                worker-pool dispatcher without retry, executor wrapped   *)
(*                in try/catch                                             *)
(*                                                                         *)
(* The JavaScript event loop is explicit: `mq` is the microtask queue      *)
(* (continuations of awaits on settled promises); a macrotask (a network   *)
(* event of an outbound call, a timer) runs only when `mq` is empty, as    *)
(* the runtime drains microtasks before it takes the next macrotask.       *)
(* Positions are 1-based here: JavaScript index c is position c + 1.       *)
(***************************************************************************)
EXTENDS Integers, Sequences, FiniteSets, TLC

\* ---- bounds of the model ------------------------------------------------
\* Largest batch explored.
MaxItems == 3
\* Concurrency limit explored.  The sources fix 50 (pool) and 5 (chunks);
\* the limit is scaled so that batches larger than the limit are explored.
MaxLimit == 2

\* ---- program constants --------------------------------------------------
maxConcurrency == MaxLimit
CONCURRENT_LIMIT == MaxLimit
DELAY_BETWEEN_REQUESTS == 200
MAX_RETRIES == 3
RETRY_DELAY_BASE_THROTTLED == 1000
RETRY_DELAY_BASE_UNLIMITED == 200

Variants == {"throttled", "unlimited", "forgiving"}
PoolVariants == {"unlimited", "forgiving"}
RetryVariants == {"throttled", "unlimited"}

\* What an element of the parsed batch array can be, by the path it takes
\* through processBatchItem.
\*   null         JSON null: destructuring it throws
\*   noRequestId  no requestId (also a number, string or boolean element)
\*   noUrl        requestId but no url
\*   invalidUrl   url that `new URL` rejects
\*   badOption    valid url, but a method that makes request() throw
\*   ok           an outbound call is issued
Kinds == {"null", "noRequestId", "noUrl", "invalidUrl", "badOption", "ok"}

\* Status codes an upstream answers with.
RemoteStatuses == {200, 429, 500}

IdNames == <<"r1", "r2", "r3", "r4", "r5", "r6">>

\* The `headers` of the item at each position of a batch, a mapping written
\* as a set of <<name, value>> pairs ({} when the item names none): one
\* overrides a default header, one adds a header.
ItemHeaders ==
  <<{<<"Accept", "text/plain">>}, {}, {<<"X-Token", "t">>},
    {<<"Accept", "text/plain">>}, {}, {<<"X-Token", "t">>}>>

VARIABLES
  variant,     \* which program runs
  request,     \* the POST /batch request: its access key and its body
  batchItems,  \* the array the request body holds (empty when it holds none)
  phase,       \* handleBatchRequest and the dispatch promise: arrived,
               \* received (key accepted, body awaited), refused, running,
               \* returned, rejected
  index,       \* processBatchWithLimit: the shared cursor
  results,     \* the result array of the dispatcher
  workers,     \* processBatchWithLimit: the worker() calls
  task,        \* per item: its processBatchItemWithRetry/processBatchItem call
  mq,          \* microtask queue
  chunkStart,  \* processThrottledBatch: the loop variable i
  groupTimer,  \* processThrottledBatch: the inter-group timer is pending
  overtaken,   \* history: an item got its final result before an earlier one
  response,    \* status written to the caller, 0 while unanswered
  formattedResults,  \* the mapping written to the caller with status 200
  proxyRes,    \* one response on its own: requestId of the call, statusCode,
               \* headers and buffered text
  endResult,   \* the object its 'end' handler resolved the call with
  calls,       \* two processBatchWithLimit calls side by side: per call its
               \* batch length, its workers, its `index`, its `results` and
               \* what it returned
  upstream,    \* Response Augmenter: the proxied response, its envelope and
               \* the configured strategy
  augmented    \* Response Augmenter: the response handed to the caller

\* The variables of the specifications that look at one handler on its own;
\* the steps of a batch request leave them alone.
handlerVars == <<proxyRes, endResult, calls, upstream, augmented>>

vars == <<variant, request, batchItems, phase, index, results, workers, task,
          mq, chunkStart, groupTimer, overtaken, response, formattedResults,
          handlerVars>>

n == Len(batchItems)

Min(a, b) == IF a < b THEN a ELSE b
Max(a, b) == IF a > b THEN a ELSE b

\* ---- results --------------------------------------------------------------
\* `item` is the position of the item whose processing made the result (the
\* `item` the closure captured); it is not a field of the JavaScript object.
\* A field a JavaScript object does not have reads as `undefined`.
Undefined == "undefined"
Null == "null"
\* The object `{}`.
EmptyMapping == "{}"
\* The header object and the body text of an upstream response.
UpstreamHeaders == "{content-type}"
UpstreamBody == "data"

\* A result without headers and body, as the early exits, the error handler,
\* the timeout handler and the catch blocks make it.
Result(id, s, e, k) ==
  [requestId |-> id, status |-> s, error |-> e, item |-> k,
   headers |-> Undefined, body |-> Undefined]
\* An empty slot of a sparse array, and a promise that is still pending.
Hole == Result("", 0, "", 0)
\* A promise rejected with the TypeError thrown by its executor.
Thrown == Result("", -1, "TypeError", 0)

\* ---- per-item state --------------------------------------------------------
\*  st        pending   not started
\*            stagger   throttled: the start timer is pending
\*            open      request issued, no response yet
\*            headers   response callback ran, body not ended
\*            aborted   connection closed after the headers, nothing pending
\*            resolved  processBatchItem settled, continuation queued
\*            backoff   retry timer pending
\*            settled   processBatchItemWithRetry fulfilled with `final`
\*            rejected  processBatchItemWithRetry rejected
\*  conn      state of the current outbound call
\*  remote    status of the response whose body is being received, else 0
\*  answered  the response headers of the current call arrived
\*  calls     number of processBatchItem calls made for this item
\*  retries   number of times the retry branch was taken
\*  hist      statuses the executions of this item yielded, in order (-1 for
\*            an execution that threw)
\*  waited    backoff delays that elapsed, in order
\*  late      the 'error' handler of the current call ran after the timeout
\*            callback had destroyed the request
NewTask == [st |-> "pending", attempt |-> 0, conn |-> "none", remote |-> 0,
            exec |-> Hole, final |-> Hole, hist |-> <<>>, waited |-> <<>>,
            timer |-> 0, delivered |-> FALSE, retries |-> 0, calls |-> 0,
            answered |-> FALSE, late |-> FALSE]

Cont(kind, k) == [kind |-> kind, item |-> k]


\* ---- Backoff policy (processBatchItemWithRetry) ----------------------------
RETRY_DELAY_BASE ==
  IF variant = "throttled" THEN RETRY_DELAY_BASE_THROTTLED
  ELSE RETRY_DELAY_BASE_UNLIMITED

\* Faulty variant: every status from 429 up is taken for a rate limit.
retryTestFrom429(status, attempt, limit) == status >= 429 /\ attempt <= limit

\* `result.status === 429 && attempt <= MAX_RETRIES`, the limit as a parameter.
retryTest(status, attempt, limit) == status = 429 /\ attempt <= limit

\* Faulty variant: one retry too many.
shouldRetryOnceMore(status, attempt) ==
  status = 429 /\ attempt <= MAX_RETRIES + 1

\* Faulty variant: the last permitted retry is not made.
shouldRetryBelowLimit(status, attempt) ==
  status = 429 /\ attempt < MAX_RETRIES

\* Faulty variant: a timeout is retried like a rate limit.
shouldRetryTimeout(status, attempt) ==
  status \in {429, 504} /\ attempt <= MAX_RETRIES

shouldRetry(status, attempt) == retryTest(status, attempt, MAX_RETRIES)

\* Faulty variant: linear instead of exponential backoff.
backoffDelayLinear(attempt) == RETRY_DELAY_BASE * attempt

\* `RETRY_DELAY_BASE * Math.pow(2, attempt - 1)`
backoffDelay(attempt) == RETRY_DELAY_BASE * 2^(attempt - 1)

\* ---- processBatchItem: the synchronous part of the executor ----------------
\* Faulty variant: the requestId is not checked.
validateSkipsRequestId(k) ==
  LET item == batchItems[k] IN
  CASE item.kind = "null" -> Thrown
    [] item.kind = "noUrl" ->
         Result(item.requestId, 400, "Missing url field", k)
    [] item.kind = "invalidUrl" ->
         Result(item.requestId, 400, "Invalid URL", k)
    [] item.kind = "badOption" ->
         IF variant = "forgiving"
         THEN Result(item.requestId, 500, "Caught exception", k)
         ELSE Thrown
    [] OTHER -> Hole

\* Faulty variant: the url is handed to the transport unchecked.
validateSkipsUrl(k) ==
  LET item == batchItems[k] IN
  CASE item.kind = "null" -> Thrown
    [] item.kind = "noRequestId" ->
         Result("unknown", 400, "Missing requestId field", k)
    [] item.kind = "badOption" ->
         IF variant = "forgiving"
         THEN Result(item.requestId, 500, "Caught exception", k)
         ELSE Thrown
    [] OTHER -> Hole

\* Hole: no early exit was taken and the request is issued.
validate(k) ==
  LET item == batchItems[k] IN
  CASE item.kind = "null" -> Thrown
    [] item.kind = "noRequestId" ->
         Result("unknown", 400, "Missing requestId field", k)
    [] item.kind = "noUrl" ->
         Result(item.requestId, 400, "Missing url field", k)
    [] item.kind = "invalidUrl" ->
         Result(item.requestId, 400, "Invalid URL", k)
    [] item.kind = "badOption" ->
         IF variant = "forgiving"
         THEN Result(item.requestId, 500, "Caught exception", k)
         ELSE Thrown
    [] OTHER -> Hole

\* The `headers` of the options object literal.
DefaultHeaders ==
  {<<"User-Agent", "RobloxBatchProxy/1.0">>, <<"Accept", "*/*">>}

\* Object.assign(target, source): the target afterwards, the properties of
\* the source written over it.
ObjectAssign(target, source) ==
  source \cup {p \in target : \A q \in source : q[1] # p[1]}

\* Faulty variant: the merged headers are stored in the item.
mergeHeadersIntoItem(item) ==
  [headers |-> ObjectAssign(DefaultHeaders, item.headers),
   item |-> [item EXCEPT !.headers = ObjectAssign(DefaultHeaders, @)]]

\* `if (item.headers) Object.assign(options.headers, item.headers)`: the
\* headers of the outbound request, and the item after the statement.  The
\* forgiving program sends the defaults only.
mergeHeaders(item) ==
  [headers |-> IF variant \in RetryVariants
               THEN ObjectAssign(DefaultHeaders, item.headers)
               ELSE DefaultHeaders,
   item |-> item]

\* The item at position k after a call processBatchItem(item): the headers
\* are merged when no early exit was taken.
itemAfterCall(items, k) ==
  IF validate(k) = Hole THEN mergeHeaders(items[k]).item ELSE items[k]

\* Faulty variant: every resolve call replaces the result of the execution.
resolveItemLast(t, r) ==
  [t EXCEPT !.st = "resolved", !.exec = r, !.hist = Append(@, r.status)]

\* The promise of processBatchItem settles (resolve(r), or a throw in the
\* executor): only the first settlement counts.  In the forgiving program the
\* worker awaits this promise itself, so its value is the item's final result.
resolveItem(t, r) ==
  IF t.exec # Hole THEN t
  ELSE IF variant \in RetryVariants
  THEN [t EXCEPT !.st = "resolved", !.exec = r, !.hist = Append(@, r.status)]
  ELSE [t EXCEPT !.st = IF r = Thrown THEN "rejected" ELSE "settled",
                 !.exec = r, !.hist = Append(@, r.status),
                 !.final = IF r = Thrown THEN Hole ELSE r]

\* processBatchItem(item) is called for attempt a of item k.
processBatchItem(t, k, a) ==
  LET r == validate(k)
      t1 == [t EXCEPT !.attempt = a, !.exec = Hole, !.remote = 0,
                      !.timer = 0, !.conn = "none", !.calls = @ + 1,
                      !.answered = FALSE, !.late = FALSE]
  IN IF r = Hole THEN [t1 EXCEPT !.st = "open", !.conn = "open"]
     ELSE resolveItem(t1, r)

\* Who awaits processBatchItem(item k), and who awaits
\* processBatchItemWithRetry(item k).
itemAwaiter(k) ==
  Cont(IF variant \in RetryVariants THEN "retry" ELSE "worker", k)

retryAwaiter(k) ==
  Cont(IF variant = "throttled" THEN "chunk" ELSE "worker", k)

\* Continuations queued because the promise of item k settled in this step.
Woken(t, k) == IF t.st \in {"resolved", "settled", "rejected"}
               THEN <<itemAwaiter(k)>> ELSE <<>>

\* This step makes the final result of an item while an earlier item of the
\* batch still has none.
Overtakes(old, new) ==
  \E k \in 1..n : /\ old[k].final = Hole
                  /\ new[k].final # Hole
                  /\ \E j \in 1..(k - 1) : new[j].final = Hole

\* Faulty variant: `results.push(result)`, the results in completion order.
StoreResultPush(arr, currentIndex, result) == Append(arr, result)

\* `results[currentIndex] = result` on a JavaScript array (sparse when an
\* index beyond the length is assigned).
StoreResult(arr, currentIndex, result) ==
  [p \in 1..Max(Len(arr), currentIndex + 1) |->
     IF p = currentIndex + 1 THEN result
     ELSE IF p <= Len(arr) THEN arr[p] ELSE Hole]

\* Faulty variant: one worker per item.
workerCountPerItem(len) == len

\* `Math.min(maxConcurrency, batchItems.length)`
workerCount(len) == Min(maxConcurrency, len)

\* Faulty variant: the cursor is advanced before it is read, and the index
\* handed out is the one before the cursor's old value.
claimIndexStale(i) == [currentIndex |-> Max(i - 1, 0), index |-> i + 1]

\* `const currentIndex = index++`: the index handed to the worker and the new
\* value of the cursor, in one synchronous step.
claimIndex(i) == [currentIndex |-> i, index |-> i + 1]

\* The loop `workers.push(worker())`: the state after the first w worker()
\* calls, each run synchronously up to its first await (or to its end when
\* the cursor is already at the end of the batch).
RECURSIVE startWorkers(_)
startWorkers(w) ==
  IF w = 0
  THEN [index |-> 0, workers |-> <<>>, task |-> task, mq |-> <<>>,
        items |-> batchItems]
  ELSE LET s == startWorkers(w - 1) IN
       IF s.index < n
       THEN LET c == claimIndex(s.index)
                k == c.currentIndex + 1
                t == processBatchItem(s.task[k], k, 1)
            IN [index |-> c.index,
                workers |-> Append(s.workers,
                                   [pc |-> "await",
                                    currentIndex |-> c.currentIndex]),
                task |-> [s.task EXCEPT ![k] = t],
                mq |-> s.mq \o Woken(t, k),
                items |-> [s.items EXCEPT ![k] = itemAfterCall(s.items, k)]]
       ELSE [s EXCEPT !.workers = Append(@, [pc |-> "done",
                                             currentIndex |-> -1])]

\* ---- handleBatchRequest: access key and payload -------------------------------
\* The configured key and the keys a request may carry, as byte sequences.
\* <<>> is a request without the header (or with an empty one).
ACCESS_KEY == <<1, 2>>
AccessKeys == {<<>>, <<1>>, <<1, 2>>, <<2, 1>>, <<1, 2, 1>>}

\* What the request body holds.
\*   none       no body at all
\*   malformed  text that JSON.parse rejects
\*   notArray   JSON that is not an array
\*   array      a JSON array, the elements in batchItems
Bodies == {"none", "malformed", "notArray", "array"}

\* Faulty variant: only the lengths of the keys are compared.
timingSafeEqualLength(a, b) == Len(a) = Len(b)

\* crypto.timingSafeEqual on two buffers of the same length.
timingSafeEqual(a, b) == \A p \in 1..Len(a) : a[p] = b[p]

\* crypto.timingSafeEqual throws a RangeError when the buffers differ in
\* length.
timingSafeEqualThrows(a, b) == Len(a) # Len(b)

\* Faulty variant: the lengths are not compared.
lengthsDifferSkipped(a, b) == FALSE

\* `accessKeyBuffer.length !== ACCESS_KEY_BUFFER.length`
lengthsDiffer(a, b) == Len(a) # Len(b)

\* The status handleBatchRequest refuses the access key with, 0 when it
\* accepts the key.  `||` evaluates crypto.timingSafeEqual only when the
\* lengths are equal; a throw inside the try block is answered 500.
accessKeyStatus(accessKey) ==
  IF accessKey = <<>> THEN 400
  ELSE IF lengthsDiffer(accessKey, ACCESS_KEY) THEN 403
  ELSE IF timingSafeEqualThrows(accessKey, ACCESS_KEY) THEN 500
  ELSE IF ~timingSafeEqual(accessKey, ACCESS_KEY) THEN 403
  ELSE 0

\* The status handleBatchRequest refuses the payload with, 0 when the payload
\* is a non-empty array: parseRequestBody rejects without a body and on text
\* that is not JSON, and the handler refuses what is no array or is empty.
payloadStatus(body, items) ==
  IF body \in {"none", "malformed"} THEN 400
  ELSE IF body # "array" \/ Len(items) = 0 THEN 400
  ELSE 0

\* ---- handleBatchRequest: the response mapping --------------------------------
\* `x || d`
OrDefault(x, d) == IF x \in {Undefined, ""} THEN d ELSE x

\* Faulty variant: the fields are copied without their defaults.
formatResultRaw(result) ==
  [status |-> result.status, headers |-> result.headers,
   body |-> result.body, error |-> result.error, item |-> result.item]

\* The entry written for one result (`item` is carried along as in Result).
formatResult(result) ==
  [status |-> result.status,
   headers |-> OrDefault(result.headers, EmptyMapping),
   body |-> OrDefault(result.body, ""),
   error |-> OrDefault(result.error, Null),
   item |-> result.item]

\* `results.forEach(result => { formattedResults[result.requestId] = ... })`
\* over the first p positions: forEach skips the holes of a sparse array, and
\* an assignment under a key that is already there replaces its entry.
RECURSIVE formatResults(_, _)
formatResults(arr, p) ==
  IF p = 0 THEN [id \in {} |-> formatResult(Hole)]
  ELSE LET m == formatResults(arr, p - 1) IN
       IF arr[p] = Hole THEN m
       ELSE [id \in DOMAIN m \cup {arr[p].requestId} |->
               IF id = arr[p].requestId THEN formatResult(arr[p]) ELSE m[id]]

\* ---- the 'end' handler of a response -----------------------------------------
\* A response text: what JSON.parse makes of it and, for the text of a JSON
\* object, the object's fields as a set of <<name, value>> pairs.
\*   object   {"a":1}, {}, {"requestKey":"x","a":1}
\*   array    [1,2]
\*   scalar   a number, a string, true, false
\*   null     null
\*   notJson  <html>...
\*   empty    the empty text
Text(syntax, fields) == [syntax |-> syntax, fields |-> fields]

ResponseTexts ==
  {Text("object", {<<"a", "1">>}), Text("object", {}),
   Text("object", {<<"requestKey", "x">>, <<"a", "1">>}),
   Text("array", {}), Text("scalar", {}), Text("null", {}),
   Text("notJson", {}), Text("empty", {})}

ResponseStatuses == {200, 201, 299, 300, 304, 404, 429, 500}

\* The body of a result: the text itself (a string) or a parsed object.
StringBody(text) ==
  [type |-> "string", syntax |-> text.syntax, fields |-> text.fields]
ObjectBody(fields) ==
  [type |-> "object", syntax |-> "object", fields |-> fields]

\* JSON.parse(body) throws a SyntaxError.
JSONparseThrows(text) == text.syntax \in {"notJson", "empty"}

\* `parsedBody && typeof parsedBody === 'object' &&
\* !Array.isArray(parsedBody)` on the value of JSON.parse(body): typeof null
\* and typeof [] are 'object' too.
isPlainObject(text) ==
  /\ text.syntax # "null"
  /\ text.syntax \in {"object", "array", "null"}
  /\ text.syntax # "array"

\* Faulty variant: status 300 counts as success.
isSuccessUpTo300(statusCode) == statusCode >= 200 /\ statusCode <= 300

\* `proxyRes.statusCode >= 200 && proxyRes.statusCode < 300`
isSuccess(statusCode) == statusCode >= 200 /\ statusCode < 300

\* The 'end' handlers of the unlimited and the forgiving program rewrite the
\* body; the handler of the throttled program has no such statements.
RewritingVariants == {"unlimited", "forgiving"}

\* `finalBody` of the 'end' handler.
finalBody(statusCode, text, requestId) ==
  IF /\ variant \in RewritingVariants
     /\ isSuccess(statusCode)
     /\ ~JSONparseThrows(text)
     /\ isPlainObject(text)
  THEN ObjectBody(ObjectAssign(text.fields, {<<"requestKey", requestId>>}))
  ELSE StringBody(text)

\* The object the 'end' handler resolves the call with.
endHandler(res) ==
  [requestId |-> res.requestId, status |-> res.statusCode,
   headers |-> res.headers,
   body |-> finalBody(res.statusCode, res.text, res.requestId)]

NoResponse ==
  [requestId |-> "", statusCode |-> 0, headers |-> Undefined,
   text |-> Text("empty", {})]
NoEndResult == endHandler(NoResponse)

\* No response is looked at on its own.
EndIdle == proxyRes = NoResponse /\ endResult = NoEndResult

\* No second batch request is in progress.
CallsIdle == calls = <<>>

\* ---- Response Augmenter (specification section 4.3) ---------------------------
\* Bodies are sequences of bytes.  MaxBody bounds the length of a plain body.
MaxBody == 2

RECURSIVE BytesUpTo(_)
BytesUpTo(len) ==
  IF len = 0 THEN {<<>>}
  ELSE BytesUpTo(len - 1)
         \cup {Append(b, x) : b \in {c \in BytesUpTo(len - 1) : Len(c) = len - 1},
                              x \in {1, 2}}

\* gzip: a member is the magic bytes, the deflated data (here the data) and
\* the length of the data.
gzip(bytes) == <<31, 139>> \o bytes \o <<Len(bytes)>>

gzipDecodable(z) ==
  /\ Len(z) >= 3
  /\ z[1] = 31
  /\ z[2] = 139
  /\ z[Len(z)] = Len(z) - 3

gunzip(z) == SubSeq(z, 3, Len(z) - 1)

\* ResponseEnvelope snapshots, and their JSON encoding: the bytes of "{",
\* of the members (one byte per snapshot here) and of "}".
Envelopes ==
  <<[statusCode |-> 200, statusMessage |-> "OK",
     headers |-> {<<"Content-Encoding", "gzip">>}],
    [statusCode |-> 404, statusMessage |-> "Not Found",
     headers |-> {<<"Content-Encoding", "gzip">>}],
    [statusCode |-> 200, statusMessage |-> "OK", headers |-> {}]>>

JSON(M) ==
  <<123, 100 + (CHOOSE i \in DOMAIN Envelopes : Envelopes[i] = M), 125>>

Strategies == {"append", "decode", "transform"}

\* The headers without the header of that name.
dropHeader(headers, name) == {h \in headers : h[1] # name}

contentEncoding(headers) ==
  IF \E h \in headers : h[1] = "Content-Encoding"
  THEN (CHOOSE h \in headers : h[1] = "Content-Encoding")[2]
  ELSE "identity"

\* The 500-class synthetic error a corrupt compressed input resolves with.
decodeFailure ==
  [statusCode |-> 500, headers |-> {}, body |-> <<>>]

\* append: the body is not decoded; identity bodies get the trailer and lose
\* Content-Length, other encodings pass through unmodified.
appendStrategy(res, M) ==
  IF contentEncoding(res.headers) = "identity"
  THEN [statusCode |-> res.statusCode,
        headers |-> dropHeader(res.headers, "Content-Length"),
        body |-> res.body \o JSON(M)]
  ELSE res

\* decode: decompress fully, append the plaintext trailer, strip
\* Content-Encoding and drop Content-Length.
decodeStrategy(res, M) ==
  IF contentEncoding(res.headers) = "identity"
  THEN appendStrategy(res, M)
  ELSE IF ~gzipDecodable(res.body) THEN decodeFailure
  ELSE [statusCode |-> res.statusCode,
        headers |-> dropHeader(dropHeader(res.headers, "Content-Encoding"),
                               "Content-Length"),
        body |-> gunzip(res.body) \o JSON(M)]

\* Faulty variant: the compressor's end-of-stream is signalled before the
\* trailer bytes are written.
transformEndsBeforeTrailer(res, M) ==
  IF contentEncoding(res.headers) = "identity"
  THEN appendStrategy(res, M)
  ELSE IF ~gzipDecodable(res.body) THEN decodeFailure
  ELSE [statusCode |-> res.statusCode,
        headers |-> dropHeader(res.headers, "Content-Length"),
        body |-> gzip(gunzip(res.body)) \o JSON(M)]

\* transform: the decompressed stream and then the trailer bytes go into a
\* fresh compressor of the same scheme; Content-Encoding is kept,
\* Content-Length dropped.
transformStrategy(res, M) ==
  IF contentEncoding(res.headers) = "identity"
  THEN appendStrategy(res, M)
  ELSE IF ~gzipDecodable(res.body) THEN decodeFailure
  ELSE [statusCode |-> res.statusCode,
        headers |-> dropHeader(res.headers, "Content-Length"),
        body |-> gzip(gunzip(res.body) \o JSON(M))]

augment(strategy, res, M) ==
  CASE strategy = "append" -> appendStrategy(res, M)
    [] strategy = "decode" -> decodeStrategy(res, M)
    [] OTHER -> transformStrategy(res, M)

NoUpstream ==
  [strategy |-> "append", plain |-> <<>>, envelope |-> Envelopes[3],
   res |-> [statusCode |-> 0, headers |-> {}, body |-> <<>>]]
NoAugmented == [statusCode |-> 0, headers |-> {}, body |-> <<>>]

\* No response is being augmented.
AugmenterIdle == upstream = NoUpstream /\ augmented = NoAugmented

\* ---- a POST /batch request arrived --------------------------------------------
\* Nothing of handleBatchRequest has run yet.
Arrived ==
  /\ phase = "arrived"
  /\ index = 0
  /\ results = <<>>
  /\ workers = <<>>
  /\ task = [k \in 1..Len(batchItems) |-> NewTask]
  /\ mq = <<>>
  /\ chunkStart = 0
  /\ groupTimer = FALSE
  /\ overtaken = FALSE
  /\ response = 0
  /\ formattedResults = formatResults(<<>>, 0)

Init ==
  /\ variant \in Variants
  /\ \E key \in AccessKeys : \E body \in Bodies :
       request = [accessKey |-> key, body |-> body]
  /\ EndIdle
  /\ CallsIdle
  /\ AugmenterIdle
  /\ IF request.body = "array"
     THEN \E len \in 0..MaxItems : \E kinds \in [1..len -> Kinds] :
            batchItems = [k \in 1..len |->
                            [kind |-> kinds[k],
                             requestId |->
                               IF kinds[k] \in {"null", "noRequestId"}
                               THEN "" ELSE IdNames[k],
                             headers |->
                               IF kinds[k] = "null"
                               THEN {} ELSE ItemHeaders[k]]]
     ELSE batchItems = <<>>
  /\ Arrived

\* Batches in which the caller may give an item the id "unknown" (the ids of
\* a batch stay unique) and whose urls may name a scheme other than http and
\* https:
\*   otherScheme  a url that `new URL` accepts, e.g. ftp://host/file
\* The request carries the configured key; at most MaxLimit items of a batch
\* go out to an upstream.
VariedItems(k) ==
  {[kind |-> "noRequestId", requestId |-> "", headers |-> ItemHeaders[k]],
   [kind |-> "otherScheme", requestId |-> IdNames[k],
    headers |-> ItemHeaders[k]],
   [kind |-> "ok", requestId |-> IdNames[k], headers |-> ItemHeaders[k]],
   [kind |-> "ok", requestId |-> "unknown", headers |-> ItemHeaders[k]]}

InitVaried ==
  /\ variant \in Variants
  /\ request = [accessKey |-> ACCESS_KEY, body |-> "array"]
  /\ EndIdle
  /\ CallsIdle
  /\ AugmenterIdle
  /\ \E len \in 0..MaxItems :
       \E items \in [1..len -> UNION {VariedItems(k) : k \in 1..len}] :
         /\ \A k \in 1..len : items[k] \in VariedItems(k)
         /\ \A j, k \in 1..len :
              (j # k /\ items[j].requestId = items[k].requestId)
                => items[j].requestId = ""
         /\ Cardinality({k \in 1..len : items[k].kind # "noRequestId"})
              <= MaxLimit
         /\ batchItems = items
  /\ Arrived

\* handleBatchRequest up to `await parseRequestBody(req)`: the access key is
\* verified.
verifyAccessKey ==
  /\ phase = "arrived"
  /\ LET s == accessKeyStatus(request.accessKey)
     IN IF s # 0
        THEN /\ response' = s
             /\ phase' = "refused"
        ELSE /\ response' = response
             /\ phase' = "received"
  /\ UNCHANGED <<handlerVars, variant, request, batchItems, index, results, workers, task,
                 mq, chunkStart, groupTimer, overtaken, formattedResults>>

\* handleBatchRequest after `await parseRequestBody(req)` when the payload is
\* refused: sendError(res, 400, ...).  (When the payload is accepted the
\* handler goes on into the dispatcher: processBatchWithLimit,
\* processThrottledBatch.)
refusePayload ==
  /\ phase = "received"
  /\ payloadStatus(request.body, batchItems) # 0
  /\ response' = payloadStatus(request.body, batchItems)
  /\ phase' = "refused"
  /\ UNCHANGED <<handlerVars, variant, request, batchItems, index, results, workers, task,
                 mq, chunkStart, groupTimer, overtaken, formattedResults>>

\* ---- worker-pool dispatcher ------------------------------------------------
\* handleBatchRequest after `await parseRequestBody(req)` with an accepted
\* payload, and its call of processBatchWithLimit up to
\* `await Promise.all(workers)`: every worker() call runs synchronously to its
\* first await.
processBatchWithLimit ==
  /\ phase = "received"
  /\ payloadStatus(request.body, batchItems) = 0
  /\ variant \in PoolVariants
  /\ LET s == startWorkers(workerCount(n))
     IN /\ workers' = s.workers
        /\ index' = s.index
        /\ task' = s.task
        /\ mq' = s.mq
        /\ overtaken' = (overtaken \/ Overtakes(task, s.task))
        /\ batchItems' = s.items
  /\ phase' = "running"
  /\ results' = <<>>
  /\ UNCHANGED <<handlerVars, variant, request, chunkStart, groupTimer,
                 response, formattedResults>>

\* worker(): the continuation after `await` of the item at currentIndex = k - 1.
worker(k) ==
  /\ mq # <<>>
  /\ Head(mq) = Cont("worker", k)
  /\ LET w == CHOOSE v \in DOMAIN workers :
                workers[v].pc = "await" /\ workers[v].currentIndex = k - 1
     IN IF task[k].st = "rejected"
        THEN \* the await throws: this worker() rejects, and so does Promise.all
             /\ workers' = [workers EXCEPT ![w].pc = "rejected"]
             /\ phase' = IF phase = "running" THEN "rejected" ELSE phase
             /\ mq' = Tail(mq) \o
                      (IF phase = "running" THEN <<Cont("handler", 0)>> ELSE <<>>)
             /\ UNCHANGED <<batchItems, index, results, task, overtaken>>
        ELSE /\ results' = StoreResult(results, k - 1, task[k].final)
             /\ IF index < n
                THEN LET c == claimIndex(index)
                         next == c.currentIndex + 1
                         t == processBatchItem(task[next], next, 1)
                     IN /\ index' = c.index
                        /\ workers' = [workers EXCEPT
                                         ![w].currentIndex = c.currentIndex]
                        /\ task' = [task EXCEPT ![next] = t]
                        /\ mq' = Tail(mq) \o Woken(t, next)
                        /\ overtaken' = (overtaken \/ Overtakes(task, task'))
                        /\ batchItems' = [batchItems EXCEPT ![next] =
                                            itemAfterCall(batchItems, next)]
                        /\ phase' = phase
                ELSE LET done == \A v \in DOMAIN workers :
                                   v # w => workers[v].pc = "done"
                     IN /\ workers' = [workers EXCEPT ![w].pc = "done"]
                        /\ phase' = IF done /\ phase = "running"
                                    THEN "returned" ELSE phase
                        /\ mq' = Tail(mq) \o
                                 (IF done /\ phase = "running"
                                  THEN <<Cont("handler", 0)>> ELSE <<>>)
                        /\ UNCHANGED <<batchItems, index, task, overtaken>>
  /\ UNCHANGED <<handlerVars, variant, request, chunkStart, groupTimer,
                 response, formattedResults>>

\* ---- retry wrapper ----------------------------------------------------------
\* The object the catch block of processBatchItemWithRetry returns.
catchResult(k) == Result(batchItems[k].requestId, 500, "Processing error", k)

\* processBatchItemWithRetry(item k): the continuation after
\* `await processBatchItem(item)`.
processBatchItemWithRetry(k) ==
  /\ mq # <<>>
  /\ Head(mq) = Cont("retry", k)
  /\ LET t == task[k] IN
     IF t.exec = Thrown
     THEN IF batchItems[k].kind = "null"
          THEN \* `item.requestId` in the catch block throws again
               /\ task' = [task EXCEPT ![k].st = "rejected"]
               /\ mq' = Tail(mq) \o <<retryAwaiter(k)>>
          ELSE /\ task' = [task EXCEPT ![k].st = "settled",
                                       ![k].final = catchResult(k)]
               /\ mq' = Tail(mq) \o <<retryAwaiter(k)>>
     ELSE IF shouldRetry(t.exec.status, t.attempt)
          THEN /\ task' = [task EXCEPT ![k].st = "backoff",
                                       ![k].timer = backoffDelay(t.attempt),
                                       ![k].retries = @ + 1]
               /\ mq' = Tail(mq)
          ELSE /\ task' = [task EXCEPT ![k].st = "settled",
                                       ![k].final = t.exec]
               /\ mq' = Tail(mq) \o <<retryAwaiter(k)>>
  /\ overtaken' = (overtaken \/ Overtakes(task, task'))
  /\ UNCHANGED <<handlerVars, variant, request, batchItems, phase, index, results, workers,
                 chunkStart, groupTimer, response, formattedResults>>

\* The backoff timer of item k fires: processBatchItemWithRetry(item,
\* attempt + 1) runs to its await.
backoffElapsed(k) ==
  /\ mq = <<>>
  /\ k \in 1..n
  /\ task[k].st = "backoff"
  /\ LET t == processBatchItem(
                [task[k] EXCEPT !.waited = Append(@, task[k].timer)],
                k, task[k].attempt + 1)
     IN /\ task' = [task EXCEPT ![k] = t]
        /\ mq' = Woken(t, k)
  /\ batchItems' = [batchItems EXCEPT ![k] = itemAfterCall(batchItems, k)]
  /\ overtaken' = (overtaken \/ Overtakes(task, task'))
  /\ UNCHANGED <<handlerVars, variant, request, phase, index, results, workers,
                 chunkStart, groupTimer, response, formattedResults>>

\* ---- events of one outbound call -------------------------------------------
InFlight(k) == task[k].st \in {"open", "headers"}

\* One event handler of the call of item k calls resolve(r).
Deliver(k, conn, r) ==
  /\ LET t == resolveItem([task[k] EXCEPT !.conn = conn, !.remote = 0], r)
     IN /\ task' = [task EXCEPT ![k] = t]
        /\ mq' = Woken(t, k)
  /\ overtaken' = (overtaken \/ Overtakes(task, task'))
  /\ UNCHANGED <<handlerVars, variant, request, batchItems, phase, index, results, workers,
                 chunkStart, groupTimer, response, formattedResults>>

\* The result the 'end' handler makes: no error field.
responseResult(k) ==
  [Result(batchItems[k].requestId, task[k].remote, Undefined, k)
     EXCEPT !.headers = UpstreamHeaders, !.body = UpstreamBody]
errorResult(k) == Result(batchItems[k].requestId, 502, "Proxy error", k)
\* Faulty variant: the timeout is reported like a transport fault.
timeoutResultAsFault(k) ==
  Result(batchItems[k].requestId, 502, "Proxy error", k)

timeoutResult(k) == Result(batchItems[k].requestId, 504, "Request timeout", k)

\* The callback of protocol.request: the response headers arrived.
response_(k, s) ==
  /\ mq = <<>>
  /\ k \in 1..n
  /\ task[k].st = "open"
  /\ task' = [task EXCEPT ![k].st = "headers", ![k].remote = s,
                           ![k].answered = TRUE]
  /\ UNCHANGED <<handlerVars, variant, request, batchItems, phase, index, results, workers,
                 mq, chunkStart, groupTimer, overtaken, response,
                 formattedResults>>

\* proxyRes.on('end')
responseEnd(k) ==
  /\ mq = <<>>
  /\ k \in 1..n
  /\ task[k].st = "headers"
  /\ Deliver(k, "ended", responseResult(k))

\* proxyReq.on('error'): connection refused, TLS failure, socket hang up
\* before a response, socket error while the body streams.
requestError(k) ==
  /\ mq = <<>>
  /\ k \in 1..n
  /\ InFlight(k)
  /\ Deliver(k, "errored", errorResult(k))

\* The callback of proxyReq.setTimeout: proxyReq.destroy(), then resolve.
requestTimeout(k) ==
  /\ mq = <<>>
  /\ k \in 1..n
  /\ InFlight(k)
  /\ Deliver(k, "destroyed", timeoutResult(k))

\* proxyReq.on('error') after the timeout callback: proxyReq.destroy() on a
\* request without a response makes the request emit 'error' (socket hang
\* up) once the socket closed, after the continuations of the timeout result
\* ran.  The handler calls resolve on the promise the timeout callback
\* resolved, which wakes no one.
lateError(k) ==
  /\ mq = <<>>
  /\ k \in 1..n
  /\ task[k].conn = "destroyed"
  /\ ~task[k].answered
  /\ ~task[k].late
  /\ task' = [task EXCEPT ![k] =
                resolveItem([task[k] EXCEPT !.late = TRUE], errorResult(k))]
  /\ UNCHANGED <<handlerVars, variant, request, batchItems, phase, index, results, workers,
                 mq, chunkStart, groupTimer, overtaken, response,
                 formattedResults>>

\* The connection is closed after the response headers and before the body
\* ended.  The response has no 'aborted', 'error' or 'close' listener and the
\* request emits no 'error' once a response exists.  What the runtime does
\* next depends on its version: it ends the readable side ('end' is emitted,
\* the body is truncated), or it destroys the response without 'end'; the
\* socket and its idle timer are gone in both cases.
prematureClose(k) ==
  /\ mq = <<>>
  /\ k \in 1..n
  /\ task[k].st = "headers"
  /\ \/ Deliver(k, "closed", responseResult(k))
     \/ /\ task' = [task EXCEPT ![k].st = "aborted", ![k].conn = "closed",
                                  ![k].remote = 0]
        /\ UNCHANGED <<handlerVars, variant, request, batchItems, phase, index, results,
                       workers, mq, chunkStart, groupTimer, overtaken,
                       response, formattedResults>>

\* ---- chunked dispatcher ----------------------------------------------------
InChunk(k, i) == i < k /\ k <= i + CONCURRENT_LIMIT

\* `chunk.map(...)`: one start timer per item of the chunk beginning at i.
startChunk(tk, i) ==
  [k \in DOMAIN tk |->
     IF InChunk(k, i)
     THEN [tk[k] EXCEPT !.st = "stagger",
                        !.timer = (k - 1 - i) * DELAY_BETWEEN_REQUESTS]
     ELSE tk[k]]

\* The value of `await Promise.all(chunkPromises)`.
chunkResults(i) == [p \in 1..(Min(i + CONCURRENT_LIMIT, n) - i) |-> task[i + p].final]

\* handleBatchRequest after `await parseRequestBody(req)` with an accepted
\* payload, and its call of processThrottledBatch up to the first
\* `await Promise.all(chunkPromises)`.
processThrottledBatch ==
  /\ phase = "received"
  /\ payloadStatus(request.body, batchItems) = 0
  /\ variant = "throttled"
  /\ phase' = "running"
  /\ results' = <<>>
  /\ chunkStart' = 0
  /\ task' = startChunk(task, 0)
  /\ UNCHANGED <<handlerVars, variant, request, batchItems, index, workers, mq, groupTimer,
                 overtaken, response, formattedResults>>

\* The start timer of item k fires (timers fire in the order of their
\* delays): processBatchItemWithRetry(item) runs to its await.
staggerElapsed(k) ==
  /\ mq = <<>>
  /\ k \in 1..n
  /\ task[k].st = "stagger"
  /\ \A j \in 1..n : task[j].st = "stagger" => task[j].timer >= task[k].timer
  /\ LET t == processBatchItem(task[k], k, 1)
     IN /\ task' = [task EXCEPT ![k] = t]
        /\ mq' = Woken(t, k)
  /\ batchItems' = [batchItems EXCEPT ![k] = itemAfterCall(batchItems, k)]
  /\ overtaken' = (overtaken \/ Overtakes(task, task'))
  /\ UNCHANGED <<handlerVars, variant, request, phase, index, results, workers,
                 chunkStart, groupTimer, response, formattedResults>>

\* Faulty variant: the chunk promise fulfils with the first item (a race).
chunkSettledAny(k) == TRUE

\* `Promise.all(chunkPromises)` fulfils when the promise of item k resolves:
\* the promises of all other items of the chunk are resolved.
chunkSettled(k) ==
  \A j \in 1..n : InChunk(j, chunkStart) /\ j # k => task[j].delivered

\* The async timer callback of item k after
\* `await processBatchItemWithRetry(item)`: resolve(result).  When the await
\* throws, the callback's promise rejects and the chunk promise stays pending.
chunkItem(k) ==
  /\ mq # <<>>
  /\ Head(mq) = Cont("chunk", k)
  /\ IF task[k].st = "rejected"
     THEN /\ mq' = Tail(mq)
          /\ UNCHANGED task
     ELSE /\ task' = [task EXCEPT ![k].delivered = TRUE]
          /\ mq' = Tail(mq) \o
                   (IF chunkSettled(k) THEN <<Cont("main", 0)>> ELSE <<>>)
  /\ UNCHANGED <<handlerVars, variant, request, batchItems, phase, index, results, workers,
                 chunkStart, groupTimer, overtaken, response, formattedResults>>

\* processThrottledBatch after `await Promise.all(chunkPromises)`.
chunkDone ==
  /\ mq # <<>>
  /\ Head(mq) = Cont("main", 0)
  /\ results' = results \o chunkResults(chunkStart)
  /\ IF chunkStart + CONCURRENT_LIMIT < n
     THEN /\ groupTimer' = TRUE
          /\ mq' = Tail(mq)
          /\ phase' = phase
     ELSE /\ groupTimer' = groupTimer
          /\ mq' = Tail(mq) \o <<Cont("handler", 0)>>
          /\ phase' = "returned"
  /\ UNCHANGED <<handlerVars, variant, request, batchItems, index, workers, task,
                 chunkStart, overtaken, response, formattedResults>>

\* The inter-group timer fires: `i += CONCURRENT_LIMIT` and the next chunk.
groupDelayElapsed ==
  /\ mq = <<>>
  /\ groupTimer
  /\ groupTimer' = FALSE
  /\ chunkStart' = chunkStart + CONCURRENT_LIMIT
  /\ task' = startChunk(task, chunkStart + CONCURRENT_LIMIT)
  /\ UNCHANGED <<handlerVars, variant, request, batchItems, phase, index, results, workers,
                 mq, overtaken, response, formattedResults>>

\* ---- handleBatchRequest after the dispatch promise settled ------------------
handleBatchRequest ==
  /\ mq # <<>>
  /\ Head(mq) = Cont("handler", 0)
  /\ response' = IF phase = "returned" THEN 200 ELSE 500
  /\ formattedResults' = IF phase = "returned"
                         THEN formatResults(results, Len(results))
                         ELSE formattedResults
  /\ mq' = Tail(mq)
  /\ UNCHANGED <<handlerVars, variant, request, batchItems, phase, index, results, workers,
                 task, chunkStart, groupTimer, overtaken>>

\* ---- specification ------------------------------------------------------------
Next ==
  \/ verifyAccessKey
  \/ refusePayload
  \/ processBatchWithLimit
  \/ processThrottledBatch
  \/ handleBatchRequest
  \/ chunkDone
  \/ groupDelayElapsed
  \/ \E k \in 1..MaxItems :
       \/ worker(k)
       \/ processBatchItemWithRetry(k)
       \/ backoffElapsed(k)
       \/ staggerElapsed(k)
       \/ chunkItem(k)
       \/ responseEnd(k)
       \/ requestError(k)
       \/ requestTimeout(k)
       \/ lateError(k)
       \/ prematureClose(k)
       \/ \E s \in RemoteStatuses : response_(k, s)

Spec == Init /\ [][Next]_vars

\* The same program on the batches of InitVaried.
SpecVaried == InitVaried /\ [][Next]_vars

\* ---- one response and its 'end' handler ---------------------------------------
\* A call with any requestId received a response with any status and any of
\* the texts; no batch request is in progress.
InitEnd ==
  /\ variant \in Variants
  /\ request = [accessKey |-> ACCESS_KEY, body |-> "none"]
  /\ batchItems = <<>>
  /\ Arrived
  /\ proxyRes \in [requestId : {"r1", "unknown"},
                   statusCode : ResponseStatuses,
                   headers : {UpstreamHeaders, EmptyMapping},
                   text : ResponseTexts]
  /\ endResult = NoEndResult
  /\ CallsIdle
  /\ AugmenterIdle

\* proxyRes.on('end')
proxyResEnd ==
  /\ proxyRes # NoResponse
  /\ endResult = NoEndResult
  /\ endResult' = endHandler(proxyRes)
  /\ UNCHANGED <<variant, request, batchItems, phase, index, results, workers,
                 task, mq, chunkStart, groupTimer, overtaken, response,
                 formattedResults, proxyRes, calls, upstream, augmented>>

NextEnd == proxyResEnd

SpecEnd == InitEnd /\ [][NextEnd]_vars

\* ---- two batch requests side by side ------------------------------------------
\* Two POST /batch requests are handled by one process of the unlimited
\* program; each runs its own processBatchWithLimit call.  The processing of
\* an item is one event here: the awaited processBatchItemWithRetry promise
\* of a worker fulfils with the result of that item.
BatchCalls == {1, 2}

\* The requestIds of the items of the two batches.
CallIdNames == <<<<"a1", "a2", "a3", "a4", "a5", "a6">>,
                 <<"b1", "b2", "b3", "b4", "b5", "b6">>>>

\* The result the processing of item j of the batch of call b yields.
callItemResult(b, j) == Result(CallIdNames[b][j], 200, Undefined, j)

\* Faulty variant: `index` and `results` are bindings of the module, shared
\* by all calls.
closureShared(b) == 1

\* `const results = []` and `let index = 0` are bindings of the call: the
\* closure the workers of call b read and write.
closureOf(b) == b

InitCalls ==
  /\ variant = "unlimited"
  /\ request = [accessKey |-> ACCESS_KEY, body |-> "none"]
  /\ batchItems = <<>>
  /\ Arrived
  /\ EndIdle
  /\ AugmenterIdle
  /\ \E len \in [BatchCalls -> 0..MaxItems] :
       calls = [b \in BatchCalls |->
                  [len |-> len[b], phase |-> "received", workers |-> <<>>,
                   index |-> 0, results |-> <<>>, returned |-> <<>>,
                   overlapped |-> FALSE]]

\* processBatchWithLimit(batchItems, 50) of call b up to
\* `await Promise.all(workers)`: the bindings are made and every worker()
\* call claims an index.
callProcessBatchWithLimit(b) ==
  /\ calls[b].phase = "received"
  /\ LET c == closureOf(b)
         wc == workerCount(calls[b].len)
         c1 == [calls EXCEPT ![c].index = 0, ![c].results = <<>>]
     IN calls' = [c1 EXCEPT
          ![c].index = wc,
          ![b].workers = [w \in 1..wc |->
                            [pc |-> "await",
                             currentIndex |-> claimIndex(w - 1).currentIndex]],
          ![b].phase = IF wc = 0 THEN "returned" ELSE "running",
          ![b].overlapped = \E o \in BatchCalls : calls[o].phase = "running"]
  /\ UNCHANGED <<variant, request, batchItems, phase, index, results, workers,
                 task, mq, chunkStart, groupTimer, overtaken, response,
                 formattedResults, proxyRes, endResult, upstream, augmented>>

\* worker() of call b after `await processBatchItemWithRetry(item)`: the
\* result is stored, and the loop claims the next index or ends; when the
\* last worker ended, the call returns `results`.
callWorker(b, w) ==
  /\ calls[b].phase = "running"
  /\ w \in DOMAIN calls[b].workers
  /\ calls[b].workers[w].pc = "await"
  /\ LET c == closureOf(b)
         currentIndex == calls[b].workers[w].currentIndex
         stored == StoreResult(calls[c].results, currentIndex,
                               callItemResult(b, currentIndex + 1))
         c1 == [calls EXCEPT ![c].results = stored]
     IN IF calls[c].index < calls[b].len
        THEN LET cl == claimIndex(calls[c].index)
             IN calls' = [c1 EXCEPT
                            ![c].index = cl.index,
                            ![b].workers[w].currentIndex = cl.currentIndex]
        ELSE LET done == \A v \in DOMAIN calls[b].workers :
                           v # w => calls[b].workers[v].pc = "done"
             IN calls' = [c1 EXCEPT
                            ![b].workers[w].pc = "done",
                            ![b].phase = IF done THEN "returned" ELSE @,
                            ![b].returned = IF done THEN stored ELSE @]
  /\ UNCHANGED <<variant, request, batchItems, phase, index, results, workers,
                 task, mq, chunkStart, groupTimer, overtaken, response,
                 formattedResults, proxyRes, endResult, upstream, augmented>>

NextCalls ==
  \E b \in BatchCalls :
    \/ callProcessBatchWithLimit(b)
    \/ \E w \in 1..MaxLimit : callWorker(b, w)

SpecCalls == InitCalls /\ [][NextCalls]_vars

\* ---- one proxied response and the Response Augmenter --------------------------
\* The upstream answered with a plain body sent as it is, gzip-encoded, or as
\* corrupt gzip data, with or without a Content-Length header; the envelope
\* was captured from the response before any header was changed.
InitAugmenter ==
  /\ variant = "unlimited"
  /\ request = [accessKey |-> ACCESS_KEY, body |-> "none"]
  /\ batchItems = <<>>
  /\ Arrived
  /\ EndIdle
  /\ CallsIdle
  /\ \E strategy \in Strategies, B \in BytesUpTo(MaxBody),
        i \in DOMAIN Envelopes, sent \in {"plain", "gzip", "corrupt"},
        length \in {{}, {<<"Content-Length", "n">>}} :
       /\ (sent = "plain") = (Envelopes[i].headers = {})
       /\ upstream =
            [strategy |-> strategy, plain |-> B, envelope |-> Envelopes[i],
             res |-> [statusCode |-> Envelopes[i].statusCode,
                      headers |-> Envelopes[i].headers \cup length,
                      body |-> CASE sent = "plain" -> B
                                 [] sent = "gzip" -> gzip(B)
                                 [] OTHER -> <<31>> \o B]]
  /\ augmented = NoAugmented

\* The configured strategy is applied to the proxied response.
augmentResponse ==
  /\ upstream # NoUpstream
  /\ augmented = NoAugmented
  /\ augmented' = augment(upstream.strategy, upstream.res, upstream.envelope)
  /\ UNCHANGED <<variant, request, batchItems, phase, index, results, workers,
                 task, mq, chunkStart, groupTimer, overtaken, response,
                 formattedResults, proxyRes, endResult, calls, upstream>>

NextAugmenter == augmentResponse

SpecAugmenter == InitAugmenter /\ [][NextAugmenter]_vars

\* ---- properties ------------------------------------------------------------------
Limit == IF variant = "throttled" THEN CONCURRENT_LIMIT ELSE maxConcurrency

InFlightCount == Cardinality({k \in 1..n : InFlight(k)})

AllStatus(h, s) == \A p \in 1..Len(h) : h[p] = s

\* C1: when dispatch returns, the result sequence has exactly one entry per
\* item, no position is a hole, and position k holds the final result made
\* for item k, whatever the order in which the items completed.
C1_ResultsInInputOrder ==
  phase = "returned" =>
    /\ Len(results) = n
    /\ \A k \in 1..n : /\ results[k] # Hole
                       /\ results[k].item = k
                       /\ results[k] = task[k].final

\* C1 witness: a batch of outbound calls, larger than the limit, returned
\* after some item had its final result before an earlier item of the batch.
C1_Witness ==
  /\ phase = "returned"
  /\ overtaken
  /\ n > Limit
  /\ \A k \in 1..n : batchItems[k].kind = "ok"
  /\ Len(results) = n

\* C2: at most `Limit` outbound calls are in flight in every reachable state.
C2_BoundedInFlight == InFlightCount <= Limit

\* C2 witness: the limit is reached while an item of the batch is not started
\* and one of the calls in flight is a retry.
C2_Witness ==
  /\ InFlightCount = Limit
  /\ \E k \in 1..n : task[k].st = "pending"
  /\ \E k \in 1..n : InFlight(k) /\ task[k].attempt > 1

\* C3 (as claimed): a fault raised while an item is processed never makes
\* dispatch reject, and the item gets a result with status 500.
C3_FaultBecomes500 ==
  /\ phase # "rejected"
  /\ \A k \in 1..n :
       (batchItems[k].kind \in {"null", "badOption"} /\ task[k].calls > 0
        /\ task[k].st # "resolved")
         => task[k].st = "settled" /\ task[k].final.status = 500

\* C4 (as claimed): a batch of items that all reach the upstream never hangs:
\* until the caller is answered, some continuation, network event or timer
\* is still to come.
C4_NeverHangs ==
  (\A k \in 1..n : batchItems[k].kind = "ok") =>
     (response # 0 \/ ENABLED Next)

\* C5: an item answered 429 on its executions 1 to 3 takes the retry branch
\* three times; every execution after the first starts when a backoff delay
\* has elapsed; and when execution 4 yields 200 the item was executed exactly
\* 4 times, waited D, 2D and 4D in that order (D = RETRY_DELAY_BASE) and its
\* final result is the status-200 result of execution 4.
C5_ThreeRetriesThenSuccess ==
  variant \in RetryVariants =>
    \A k \in 1..n :
      LET t == task[k]
          D == RETRY_DELAY_BASE
      IN /\ t.calls > 0 => Len(t.waited) = t.calls - 1
         /\ (t.hist = <<429, 429, 429>> /\ t.st # "resolved")
              => t.retries = 3
         /\ (t.hist = <<429, 429, 429, 200>> /\ t.st = "settled")
              => /\ t.calls = 4
                 /\ t.retries = 3
                 /\ t.waited = <<D, 2 * D, 4 * D>>
                 /\ t.final.status = 200
                 /\ t.final = t.exec

C5_Witness ==
  /\ variant \in RetryVariants
  /\ \E k \in 1..n : /\ task[k].hist = <<429, 429, 429, 200>>
                     /\ task[k].st = "settled"
                     /\ task[k].final.status = 200

\* The retry decision of item k has just been taken on a returned result.
Decided(t) == t.st \in {"backoff", "settled"} /\ t.exec.status > 0

\* C6 (as claimed): after attempt a returned a result, the item is retried
\* iff a < MAX_RETRIES and the status is 429.
C6_RetryIffBelowLimit ==
  variant \in RetryVariants =>
    \A k \in 1..n :
      LET t == task[k] IN
      Decided(t) =>
        (t.st = "backoff" <=> (t.attempt < MAX_RETRIES /\ t.exec.status = 429))

\* C6 (amended): after attempt a returned a result, the item is retried iff
\* a <= MAX_RETRIES and the status is 429; with a limit of 0 the test is false
\* for every status and every attempt.
C6_RetryIffWithinLimit ==
  /\ variant \in RetryVariants =>
       \A k \in 1..n :
         LET t == task[k] IN
         Decided(t) =>
           (t.st = "backoff" <=>
              (t.attempt <= MAX_RETRIES /\ t.exec.status = 429))
  /\ \A s \in RemoteStatuses \cup {400, 502, 504} :
       \A a \in 1..(MAX_RETRIES + 1) : ~retryTest(s, a, 0)

\* C6 witness: both outcomes of the test at the limit and beyond it: one item
\* waits for its retry after attempt MAX_RETRIES, another was answered 429 on
\* attempt MAX_RETRIES + 1 and is not retried.
C6_Witness ==
  /\ variant \in RetryVariants
  /\ \E k \in 1..n : /\ task[k].st = "backoff"
                     /\ task[k].attempt = MAX_RETRIES
  /\ \E k \in 1..n : /\ task[k].st = "settled"
                     /\ task[k].attempt = MAX_RETRIES + 1
                     /\ task[k].exec.status = 429

\* C7: an item is executed at most MAX_RETRIES + 1 times, and an item answered
\* 429 on every execution ends, after exactly MAX_RETRIES retries, with the
\* status-429 result of its last execution.
C7_Exhausted429Surfaced ==
  variant \in RetryVariants =>
    \A k \in 1..n :
      LET t == task[k] IN
      /\ t.calls <= MAX_RETRIES + 1
      /\ t.retries <= MAX_RETRIES
      /\ (t.st = "settled" /\ t.hist # <<>> /\ AllStatus(t.hist, 429))
           => /\ t.calls = MAX_RETRIES + 1
              /\ t.retries = MAX_RETRIES
              /\ t.final.status = 429
              /\ t.final = t.exec

C7_Witness ==
  /\ variant \in RetryVariants
  /\ \E k \in 1..n : /\ task[k].st = "settled"
                     /\ task[k].hist = <<429, 429, 429, 429>>
                     /\ task[k].final.status = 429

\* C8: an execution that yields anything but 429 is the last execution of its
\* item; an item whose first execution yields 400, 500, 502 or 504 (or throws,
\* which the wrapper turns into 500) is executed exactly once, is not retried,
\* and that result is its final result.
C8_OnlyRateLimitRetried ==
  variant \in RetryVariants =>
    \A k \in 1..n :
      LET t == task[k] IN
      /\ \A p \in 1..(Len(t.hist) - 1) : t.hist[p] = 429
      /\ (t.hist # <<>> /\ t.hist[1] \in {400, 500, 502, 504}
          /\ t.st # "resolved")
           => /\ t.calls = 1
              /\ t.retries = 0
              /\ t.st = "settled"
              /\ t.final.status = t.hist[1]
      /\ (t.hist # <<>> /\ t.hist[1] = -1 /\ batchItems[k].kind # "null"
          /\ t.st # "resolved")
           => /\ t.calls = 1
              /\ t.retries = 0
              /\ t.st = "settled"
              /\ t.final.status = 500

\* C8 witness: one batch with a validation result, a transport fault and a
\* timeout, each final after a single execution.
C8_Witness ==
  /\ variant \in RetryVariants
  /\ \E a, b, c \in 1..n :
       /\ task[a].st = "settled" /\ task[a].final.status = 400
       /\ task[b].st = "settled" /\ task[b].final.status = 502
       /\ task[c].st = "settled" /\ task[c].final.status = 504
       /\ task[a].calls = 1 /\ task[b].calls = 1 /\ task[c].calls = 1

\* C9: a call whose timeout fired is destroyed and no longer in flight, its
\* execution yields status 504 with error "Request timeout", that result is
\* the item's final result, and once every item of such a batch has its final
\* result the dispatch has returned a result for every item.
C9_TimeoutYields504 ==
  /\ \A k \in 1..n :
       LET t == task[k] IN
       t.conn = "destroyed" =>
         /\ ~InFlight(k)
         /\ t.exec.status = 504
         /\ t.exec.error = "Request timeout"
         /\ t.exec.requestId = batchItems[k].requestId
         /\ t.st \in {"resolved", "settled"}
         /\ t.st = "settled" => t.final = t.exec
  /\ ( /\ mq = <<>>
       /\ \E k \in 1..n : task[k].conn = "destroyed"
       /\ \A k \in 1..n : task[k].st = "settled" )
       => /\ phase = "returned"
          /\ response = 200
          /\ Len(results) = n
          /\ \A k \in 1..n : results[k] = task[k].final

\* C9 witness: no call of a full batch was ever answered, every item timed
\* out, and the caller has its answer.
C9_Witness ==
  /\ n = MaxItems
  /\ \A k \in 1..n : /\ task[k].conn = "destroyed"
                     /\ ~task[k].answered
                     /\ task[k].final.status = 504
  /\ response = 200

\* C10 (as claimed): every transport fault of a call, before or after the
\* response headers, ends in a final result with status 502 for that item.
C10_FaultYields502 ==
  \A k \in 1..n :
    (task[k].conn \in {"errored", "closed"} /\ mq = <<>>)
      => /\ task[k].st = "settled"
         /\ task[k].final.status = 502

\* How often the index of item k was claimed: every processBatchItem call of
\* an item follows either a claim of its index or an elapsed backoff delay.
Claims(k) == task[k].calls - Len(task[k].waited)

\* C11: in the worker-pool dispatcher the cursor never passes the end of the
\* batch, the claimed indices are exactly those below the cursor and each was
\* claimed once, no two workers hold the same index, every held index is
\* below n, and when dispatch returns every index was claimed.
C11_EachIndexClaimedOnce ==
  (variant \in PoolVariants /\ phase # "received") =>
    /\ index <= n
    /\ \A k \in 1..n : Claims(k) = IF k <= index THEN 1 ELSE 0
    /\ \A v, w \in DOMAIN workers :
         (v # w /\ workers[v].pc = "await" /\ workers[w].pc = "await")
           => workers[v].currentIndex # workers[w].currentIndex
    /\ \A w \in DOMAIN workers :
         workers[w].pc = "await" => workers[w].currentIndex \in 0..(n - 1)
    /\ phase = "returned" => index = n

\* C11 witness: a pool smaller than the batch returned after its workers
\* finished their items out of input order, one item having been retried.
C11_Witness ==
  /\ variant \in PoolVariants
  /\ phase = "returned"
  /\ n > maxConcurrency
  /\ index = n
  /\ overtaken
  /\ \E k \in 1..n : task[k].calls > 1
  /\ \A k \in 1..n : batchItems[k].kind = "ok"

\* Item k holds a slot of the dispatcher: it was started (its start timer
\* included) and the dispatcher has no final result or rejection for it yet.
BeingProcessed(k) ==
  task[k].st \in {"stagger", "open", "headers", "aborted", "resolved", "backoff"}

\* C12 (as claimed): between two events, while an item of the batch is not
\* started, min(limit, n) items are being processed.  Stated for the batches
\* whose items all go out to an upstream, on which no worker is lost to a
\* fault (C3).
C12_PoolSaturated ==
  (/\ \A k \in 1..n : batchItems[k].kind = "ok"
   /\ phase = "running"
   /\ mq = <<>>
   /\ \E k \in 1..n : task[k].st = "pending")
    => Cardinality({k \in 1..n : BeingProcessed(k)}) = Min(Limit, n)

\* The state of an item in the terms of the item state machine.  "Rejected"
\* is the state the machine does not name: the item's processing threw and
\* the item has no result (C3).
ItemState(t) ==
  CASE t.st \in {"pending", "stagger"} -> "Pending"
    [] t.st \in {"open", "headers", "aborted", "resolved"} -> "InFlight"
    [] t.st = "backoff" -> "Retrying"
    [] t.st = "settled" ->
         IF t.final.status \in 200..299 THEN "Succeeded" ELSE "Failed"
    [] OTHER -> "Rejected"

ItemTransitions ==
  {<<"Pending", "InFlight">>, <<"InFlight", "Succeeded">>,
   <<"InFlight", "Retrying">>, <<"Retrying", "InFlight">>,
   <<"InFlight", "Failed">>, <<"InFlight", "Rejected">>}

\* C13: in the programs with a retry wrapper every step moves an item along
\* Pending -> InFlight -> (Succeeded | Retrying -> InFlight | Failed); an item
\* becomes Failed only with a status other than 429 or after MAX_RETRIES
\* retries; in every program an item that has its final result is never
\* executed again and keeps that result, and a slot of the result array that
\* was written holds the item's final result and is never written again.
C13_ItemStateMachine ==
  [][ /\ \A k \in 1..n :
           LET a == ItemState(task[k])
               b == ItemState(task'[k])
           IN /\ variant \in RetryVariants =>
                   /\ a # b => <<a, b>> \in ItemTransitions
                   /\ (a # "Failed" /\ b = "Failed") =>
                        \/ task'[k].final.status # 429
                        \/ task'[k].retries = MAX_RETRIES
              /\ task[k].st = "settled" =>
                   /\ task'[k].st = "settled"
                   /\ task'[k].final = task[k].final
                   /\ task'[k].calls = task[k].calls
      /\ \A p \in 1..Len(results) :
           results[p] # Hole =>
             /\ Len(results') >= p
             /\ results'[p] = results[p]
      /\ \A p \in 1..Len(results') :
           results'[p] # Hole => results'[p] = task'[p].final
    ]_vars

\* C13 witness: one batch of the unlimited program in which an item succeeded
\* after a retry, another failed when its retries were exhausted and a third
\* failed at once with a status that is not retried, all three recorded.
C13_Witness ==
  /\ variant = "unlimited"
  /\ phase = "returned"
  /\ \E a, b, c \in 1..n :
       /\ task[a].final.status = 200 /\ task[a].retries > 0
       /\ task[b].final.status = 429 /\ task[b].retries = MAX_RETRIES
       /\ task[c].final.status = 500 /\ task[c].retries = 0
       /\ results[a] = task[a].final
       /\ results[b] = task[b].final
       /\ results[c] = task[c].final

\* The request carried the configured key and a non-empty array.
Accepted ==
  /\ accessKeyStatus(request.accessKey) = 0
  /\ payloadStatus(request.body, batchItems) = 0

\* C14 (as claimed): an accepted batch is answered with status 200 and a
\* mapping, whatever its items are or do; a status outside 2xx is written only
\* to a request whose key or payload was refused.
C14_AcceptedBatchAnswered200 ==
  /\ (Accepted /\ response # 0) =>
       /\ response = 200
       /\ DOMAIN formattedResults # {}
  /\ (response # 0 /\ response \notin 200..299) => ~Accepted

\* An item that has a requestId and a url.
ValidItem(k) ==
  batchItems[k].kind \in {"invalidUrl", "badOption", "otherScheme", "ok"}

\* C15 (as claimed): the mapping written with status 200 holds, for every
\* valid item, an entry under the item's requestId, and that entry was made
\* from the final result of that very item.
C15_EntryPerValidItem ==
  response = 200 =>
    \A k \in 1..n :
      ValidItem(k) =>
        /\ batchItems[k].requestId \in DOMAIN formattedResults
        /\ formattedResults[batchItems[k].requestId].item = k
        /\ formattedResults[batchItems[k].requestId].status
             = task[k].final.status

\* No outbound call was issued for item k by now.
NoCallIssued(k) ==
  /\ task[k].conn = "none"
  /\ ~task[k].answered
  /\ ~InFlight(k)
  /\ task[k].st \notin {"aborted", "backoff"}

\* C16: for an item (an object) without requestId no outbound call is ever
\* issued; its one execution yields status 400 under the requestId "unknown"
\* at once, and that result is its final result.
C16_MissingRequestIdIs400 ==
  \A k \in 1..n :
    batchItems[k].kind = "noRequestId" =>
      /\ NoCallIssued(k)
      /\ task[k].calls <= 1
      /\ task[k].calls = 1 =>
           /\ task[k].st \in {"resolved", "settled"}
           /\ task[k].exec.requestId = "unknown"
           /\ task[k].exec.status = 400
           /\ task[k].exec.error = "Missing requestId field"
      /\ task[k].st = "settled" => task[k].final = task[k].exec

\* C16 witness: an answered batch in which an item without requestId stood
\* between two items that went out to their upstreams.
C16_Witness ==
  /\ response = 200
  /\ \E j, k, l \in 1..n :
       /\ j < k /\ k < l
       /\ batchItems[j].kind = "ok" /\ task[j].answered
       /\ batchItems[k].kind = "noRequestId"
       /\ task[k].final.requestId = "unknown"
       /\ task[k].final.status = 400
       /\ batchItems[l].kind = "ok" /\ task[l].answered

\* C17: for an item that has a requestId but no url, or a url that is no
\* absolute URL, no outbound call is ever issued; its one execution yields
\* status 400 under the item's own requestId at once, and that result is its
\* final result.
C17_MissingOrBadUrlIs400 ==
  \A k \in 1..n :
    batchItems[k].kind \in {"noUrl", "invalidUrl"} =>
      /\ NoCallIssued(k)
      /\ task[k].calls <= 1
      /\ task[k].calls = 1 =>
           /\ task[k].st \in {"resolved", "settled"}
           /\ task[k].exec.requestId = batchItems[k].requestId
           /\ task[k].exec.status = 400
           /\ task[k].exec.error =
                IF batchItems[k].kind = "noUrl"
                THEN "Missing url field" ELSE "Invalid URL"
      /\ task[k].st = "settled" => task[k].final = task[k].exec

\* C17 witness: an answered batch with an item without url, an item with an
\* unparsable url and an item that went out to its upstream.
C17_Witness ==
  /\ response = 200
  /\ \E j, k, l \in 1..n :
       /\ batchItems[j].kind = "noUrl" /\ task[j].final.status = 400
       /\ batchItems[k].kind = "invalidUrl" /\ task[k].final.status = 400
       /\ batchItems[l].kind = "ok" /\ task[l].answered

\* C18 (as claimed): for an item whose url names a scheme other than http and
\* https no outbound call is ever issued, and its execution yields status 400
\* under the item's requestId.
C18_OtherSchemeIs400 ==
  \A k \in 1..n :
    batchItems[k].kind = "otherScheme" =>
      /\ NoCallIssued(k)
      /\ task[k].calls >= 1 =>
           /\ task[k].exec.requestId = batchItems[k].requestId
           /\ task[k].exec.status = 400

\* C19: an item is processed only for a request that carried the configured
\* key and a non-empty array; a request without key is answered 400, one with
\* another key 403, and one with the configured key whose body is missing,
\* unparsable, no array or an empty array 400; a refused request has had none
\* of its items processed and nothing of it is left to run.
C19_RefusedBeforeDispatch ==
  /\ (\E k \in 1..n : task[k] # NewTask) =>
       /\ request.accessKey = ACCESS_KEY
       /\ request.body = "array"
       /\ n > 0
  /\ phase # "arrived" =>
       /\ request.accessKey = <<>> => (phase = "refused" /\ response = 400)
       /\ request.accessKey \notin {<<>>, ACCESS_KEY} =>
            (phase = "refused" /\ response = 403)
  /\ (phase \notin {"arrived", "received"} /\ request.accessKey = ACCESS_KEY
      /\ (request.body # "array" \/ n = 0)) =>
       (phase = "refused" /\ response = 400)
  /\ phase = "refused" =>
       /\ \A k \in 1..n : task[k] = NewTask
       /\ mq = <<>>
       /\ workers = <<>>
       /\ DOMAIN formattedResults = {}

\* C19 witness: a full batch of items that would all go out, refused with 403
\* because its key has the length of the configured key and other bytes.
C19_Witness ==
  /\ phase = "refused"
  /\ response = 403
  /\ Len(request.accessKey) = Len(ACCESS_KEY)
  /\ n = MaxItems
  /\ \A k \in 1..n : batchItems[k].kind = "ok"

\* C20: the answer with status 200 is one mapping whose keys are the
\* requestIds of the results; each entry was made from a result with that
\* requestId and holds that result's status, its headers (the empty mapping
\* when the result has none), its body (the empty text when it has none) and
\* its error (null when it has none); an item that has a requestId finds its
\* own result under it.  Nothing is written with any other status.
C20_ResultEncoding ==
  /\ response # 200 => DOMAIN formattedResults = {}
  /\ response = 200 =>
       /\ DOMAIN formattedResults
            = {results[p].requestId : p \in 1..Len(results)}
       /\ \A id \in DOMAIN formattedResults :
            LET e == formattedResults[id]
                r == results[e.item]
            IN /\ r.requestId = id
               /\ e.status = r.status
               /\ e.headers = IF r.headers = Undefined
                               THEN EmptyMapping ELSE r.headers
               /\ e.body = IF r.body = Undefined THEN "" ELSE r.body
               /\ e.error = IF r.error = Undefined THEN Null ELSE r.error
       /\ \A k \in 1..n :
            batchItems[k].requestId # "" =>
              formattedResults[batchItems[k].requestId].item = k

\* C20 witness: one answer holding an entry made from an upstream response
\* (headers, no error), one made from a validation result and one made from
\* a transport fault (both without headers, with an error).
C20_Witness ==
  /\ response = 200
  /\ \E a, b, c \in DOMAIN formattedResults :
       /\ formattedResults[a].headers = UpstreamHeaders
       /\ formattedResults[a].error = Null
       /\ formattedResults[b].status = 400
       /\ formattedResults[b].headers = EmptyMapping
       /\ formattedResults[b].error = "Missing url field"
       /\ formattedResults[c].status = 502
       /\ formattedResults[c].headers = EmptyMapping
       /\ formattedResults[c].body = ""

\* C21: for every key a request can carry, the content comparison runs only
\* on buffers of equal length and so never throws, the key check never
\* answers 500, a key of another length is answered 403, and the key is
\* accepted only if it equals the configured key; a refused request was
\* answered 400 or 403, and a request that got past the key check carried
\* the configured key.
C21_LengthBeforeContent ==
  /\ \A key \in AccessKeys :
       /\ (key # <<>> /\ ~lengthsDiffer(key, ACCESS_KEY))
            => ~timingSafeEqualThrows(key, ACCESS_KEY)
       /\ accessKeyStatus(key) # 500
       /\ (key # <<>> /\ Len(key) # Len(ACCESS_KEY))
            => accessKeyStatus(key) = 403
       /\ accessKeyStatus(key) = 0 <=> key = ACCESS_KEY
  /\ phase = "refused" => response \in {400, 403}
  /\ phase \notin {"arrived", "refused"} => request.accessKey = ACCESS_KEY

\* C21 witness: a request whose key is longer than the configured key was
\* refused with 403.
C21_Witness ==
  /\ phase = "refused"
  /\ response = 403
  /\ Len(request.accessKey) > Len(ACCESS_KEY)

\* C22: no step of the program changes a submitted item: the batch holds
\* the same items, each with its requestId, url, method and headers, before
\* and after every step of validation, header merging, execution, retry and
\* formatting.
C22_ItemsUnchanged == [][batchItems' = batchItems]_vars

\* C22 witness: a batch was answered in which an item naming headers of its
\* own went out to the upstream with merged headers and was retried.
C22_Witness ==
  /\ phase = "returned"
  /\ response = 200
  /\ variant \in RetryVariants
  /\ \E k \in 1..n :
       /\ batchItems[k].headers # {}
       /\ mergeHeaders(batchItems[k]).headers # DefaultHeaders
       /\ task[k].retries > 0
       /\ batchItems[k].requestId \in DOMAIN formattedResults

\* The group of the chunked dispatcher the item at position k belongs to.
Group(k) == (k - 1) \div CONCURRENT_LIMIT

\* C24: in the chunked dispatcher an item of a later group is started (its
\* start timer set) only when every item of every earlier group has its
\* final result, retries and backoffs included, and handed it to the chunk;
\* while the inter-group delay runs no item of the next group is started;
\* and an item of a later group leaves the not-started state only in the
\* step in which the inter-group timer fires.
C24_GroupsInSequence ==
  /\ [](variant = "throttled" =>
         /\ \A j, k \in 1..n :
              (Group(j) < Group(k) /\ task[k].st # "pending")
                => (task[j].final # Hole /\ task[j].delivered)
         /\ groupTimer =>
              \A k \in 1..n :
                k > chunkStart + CONCURRENT_LIMIT => task[k].st = "pending")
  /\ [][variant = "throttled" =>
          \A k \in 1..n :
            (Group(k) > 0 /\ task[k].st = "pending" /\ task'[k].st # "pending")
              => (groupTimer /\ ~groupTimer')]_vars

\* C24 witness: an item of the second group was started after an item of
\* the first group had been retried.
C24_Witness ==
  /\ variant = "throttled"
  /\ \E j, k \in 1..n :
       /\ Group(j) < Group(k)
       /\ task[j].retries > 0
       /\ task[k].st \notin {"pending", "stagger"}

\* The items the pool claimed and has no recorded result for.
Unrecorded ==
  {k \in 1..n : k <= index /\ (k > Len(results) \/ results[k] = Hole)}

\* C25: in the worker pool with retries, once dispatch started, exactly
\* min(maxConcurrency, n) workers were started; an item in backoff is still
\* held by a worker awaiting it (the slot is not released); and the number of
\* items claimed and without a recorded result is at most
\* min(maxConcurrency, n).
C25_BackoffKeepsSlot ==
  (variant = "unlimited" /\ phase \in {"running", "returned", "rejected"}) =>
    /\ Len(workers) = Min(maxConcurrency, n)
    /\ \A k \in 1..n :
         task[k].st = "backoff" =>
           \E w \in DOMAIN workers :
             workers[w].pc = "await" /\ workers[w].currentIndex = k - 1
    /\ Cardinality(Unrecorded) <= Min(maxConcurrency, n)

\* C25 witness: in a batch larger than the pool one item is in backoff, every
\* worker holds an item without a recorded result, and an item is not yet
\* claimed.
C25_Witness ==
  /\ variant = "unlimited"
  /\ phase = "running"
  /\ n > maxConcurrency
  /\ index < n
  /\ \E k \in 1..n : task[k].st = "backoff"
  /\ Cardinality(Unrecorded) = maxConcurrency

\* C26: the result of an execution is fixed by the first of its 'end',
\* 'error' and timeout events: once an execution has a result, no later
\* event of the same call changes it or adds another one, an item never
\* has more recorded results than executions, and an item with a final
\* result has exactly one result per execution.
C26_FirstEventWins ==
  /\ [][\A k \in 1..n :
          (task[k].exec # Hole /\ task'[k].calls = task[k].calls)
            => /\ task'[k].exec = task[k].exec
               /\ task'[k].hist = task[k].hist]_vars
  /\ [](\A k \in 1..n :
          /\ Len(task[k].hist) <= task[k].calls
          /\ task[k].st = "settled" => Len(task[k].hist) = task[k].calls
          /\ task[k].late => /\ task[k].exec.status = 504
                             /\ task[k].exec.error = "Request timeout")

\* C26 witness: the caller was answered with the timeout result of an item
\* whose request emitted 'error' after the timeout callback, next to an item
\* whose response ended first.
C26_Witness ==
  /\ response = 200
  /\ \E j, k \in 1..n :
       /\ task[k].late
       /\ task[k].hist = <<504>>
       /\ formattedResults[batchItems[k].requestId].status = 504
       /\ task[j].conn = "ended"
       /\ task[j].final.status = 200

\* What the claim says the body of a result is: the parsed object with
\* requestKey set for a 2xx response whose text is a JSON object, else the
\* text as it is.
ClaimedBody(res) ==
  IF /\ res.statusCode \in 200..299
     /\ res.text.syntax = "object"
  THEN [type |-> "object", syntax |-> "object",
        fields |-> {f \in res.text.fields : f[1] # "requestKey"}
                     \cup {<<"requestKey", res.requestId>>}]
  ELSE [type |-> "string", syntax |-> res.text.syntax,
        fields |-> res.text.fields]

\* C28 (as claimed): in every program the result of a response carries the
\* remote status and headers, and its body is the parsed object with
\* requestKey set to the requestId when the status is in 200..299 and the
\* text is a JSON object, else the text unchanged.
C28_BodyRewrittenEverywhere ==
  endResult # NoEndResult =>
    /\ endResult.status = proxyRes.statusCode
    /\ endResult.headers = proxyRes.headers
    /\ endResult.body = ClaimedBody(proxyRes)

\* C28 (amended): that holds in the unlimited and the forgiving program; in
\* the throttled program the result carries the remote status and headers
\* and its body is always the text unchanged.
C28_BodyRewrittenByTwoPrograms ==
  endResult # NoEndResult =>
    /\ endResult.requestId = proxyRes.requestId
    /\ endResult.status = proxyRes.statusCode
    /\ endResult.headers = proxyRes.headers
    /\ endResult.body =
         IF variant \in {"unlimited", "forgiving"}
         THEN ClaimedBody(proxyRes)
         ELSE [type |-> "string", syntax |-> proxyRes.text.syntax,
               fields |-> proxyRes.text.fields]

\* C28 witness: a status-299 response whose text is a JSON object that
\* already has a requestKey field was resolved with the parsed object, the
\* field now holding the requestId.
C28_Witness ==
  /\ variant = "unlimited"
  /\ proxyRes.statusCode = 299
  /\ <<"requestKey", "x">> \in proxyRes.text.fields
  /\ endResult.body.type = "object"
  /\ <<"requestKey", proxyRes.requestId>> \in endResult.body.fields
  /\ <<"requestKey", "x">> \notin endResult.body.fields

\* C27: of two processBatchWithLimit calls running side by side, each keeps
\* its cursor within its own batch, holds in its result array only results
\* of its own items, each at the item's index, and returns exactly one
\* result per own item at the item's index.
C27_CallsDoNotInterfere ==
  \A b \in DOMAIN calls :
    /\ calls[b].index <= calls[b].len
    /\ Len(calls[b].results) <= calls[b].len
    /\ \A p \in 1..Len(calls[b].results) :
         calls[b].results[p] \in {Hole, callItemResult(b, p)}
    /\ calls[b].phase = "returned" =>
         /\ Len(calls[b].returned) = calls[b].len
         /\ \A p \in 1..calls[b].len :
              calls[b].returned[p] = callItemResult(b, p)

\* C27 witness: two batches, both larger than the pool, one started while
\* the other was running, and both returned.
C27_Witness ==
  /\ calls # <<>>
  /\ \A b \in DOMAIN calls : /\ calls[b].phase = "returned"
                              /\ calls[b].len > maxConcurrency
  /\ \E b \in DOMAIN calls : calls[b].overlapped

\* C23: for an upstream gzip-encoded body B and envelope M, the transform
\* strategy yields a gzip-decodable body that decompresses to exactly B
\* followed by JSON(M), with Content-Encoding kept, and the decode strategy
\* yields exactly those bytes as the body, with no Content-Encoding header.
C23_AugmentationRoundTrip ==
  (/\ augmented # NoAugmented
   /\ contentEncoding(upstream.res.headers) = "gzip"
   /\ upstream.res.body = gzip(upstream.plain)) =>
    LET expected == upstream.plain \o JSON(upstream.envelope) IN
    /\ upstream.strategy = "transform" =>
         /\ gzipDecodable(augmented.body)
         /\ gunzip(augmented.body) = expected
         /\ <<"Content-Encoding", "gzip">> \in augmented.headers
    /\ upstream.strategy = "decode" =>
         /\ augmented.body = expected
         /\ \A h \in augmented.headers : h[1] # "Content-Encoding"

\* C23 witness: a gzip-encoded body of MaxBody bytes went through the
\* transform strategy.
C23_Witness ==
  /\ augmented # NoAugmented
  /\ upstream.strategy = "transform"
  /\ Len(upstream.plain) = MaxBody
  /\ upstream.res.body = gzip(upstream.plain)
  /\ gunzip(augmented.body) = upstream.plain \o JSON(upstream.envelope)

====
